---- MODULE Spec2Model ----
(***************************************************************************)
(* TopWorkplacesService (src/src/scripts/top-workplaces.ts).               *)
(*                                                                         *)
(* getTopWorkplaces issues two HTTP requests, joins them with Promise.all, *)
(* counts the shifts per workplaceId in a plain object, maps every         *)
(* workplace to {name, shifts}, sorts by shifts descending and keeps the   *)
(* first three.  Any exception inside the try block is logged and turned   *)
(* into the empty array.                                                   *)
(*                                                                         *)
(* JavaScript runs one job at a time: the synchronous part of a call, and  *)
(* a response together with all the promise reactions it triggers, are     *)
(* each one atomic step.                                                   *)
(***************************************************************************)
EXTENDS Integers, Sequences, FiniteSets

\* ------------------------------------------------------------------ bounds
NumInvocations == 2
MaxWorkplaces == 4
MaxShifts == 3

Invocations == 1..NumInvocations

\* ---------------------------------------------------------------- endpoints
WORKPLACES_URL == "workplaces"
SHIFTS_URL == "shifts"
Urls == {WORKPLACES_URL, SHIFTS_URL}

\* ------------------------------------------------------------- JS values
\* A JavaScript value as far as the aggregation can produce one: a number,
\* undefined, a function object (inherited from Object.prototype), or a
\* string (the result of function + 1, string + 1; v counts the appended 1s).
Num(n) == [t |-> "num", v |-> n]
Undef == [t |-> "undef", v |-> 0]
Fn == [t |-> "fn", v |-> 0]
Str(n) == [t |-> "str", v |-> n]

\* x || 0
OrZero(x) ==
  IF x.t = "undef" \/ (x.t = "num" /\ x.v = 0) THEN Num(0) ELSE x

\* x + 1
PlusOne(x) ==
  CASE x.t = "num" -> Num(x.v + 1)
    [] x.t = "fn" -> Str(1)
    [] x.t = "str" -> Str(x.v + 1)
    [] OTHER -> Num(0)

\* Property names every object literal inherits from Object.prototype; of
\* these the identifier universe below contains "constructor".
ObjectPrototypeKeys == {"constructor"}

\* {} : an object with no own properties
EmptyObject == [k \in {} |-> Num(0)]

\* obj[k] : own property, else the inherited one, else undefined
GetProp(obj, k) ==
  IF k \in DOMAIN obj THEN obj[k]
  ELSE IF k \in ObjectPrototypeKeys THEN Fn
  ELSE Undef

\* obj[k] = v
SetProp(obj, k, v) ==
  [x \in (DOMAIN obj) \cup {k} |-> IF x = k THEN v ELSE obj[x]]

\* ------------------------------------------------------------- payloads
\* response.data.data: an array of records, or undefined when the envelope
\* has no data field.
Array(items) == [isArray |-> TRUE, items |-> items]
Undefined == [isArray |-> FALSE, items |-> <<>>]

NameOf(id) ==
  CASE id = "A" -> "Alpha"
    [] id = "B" -> "Beta"
    [] id = "C" -> "Gamma"
    [] id = "D" -> "Delta"
    [] id = "E" -> "Epsilon"
    [] OTHER -> "Omega"

Workplace(id) == [id |-> id, name |-> NameOf(id)]
Shift(id) == [workplaceId |-> id, workerId |-> "w"]

SeqsUpTo(S, n) == UNION {[1..m -> S] : m \in 0..n}

IsInjective(s) == \A i, j \in DOMAIN s : s[i] = s[j] => i = j

\* workplace collections with distinct ids
WorkplaceCollections(ids, n) ==
  {[j \in DOMAIN s |-> Workplace(s[j])] : s \in {q \in SeqsUpTo(ids, n) : IsInjective(q)}}

IdRank(id) ==
  CASE id = "A" -> 1
    [] id = "B" -> 2
    [] id = "C" -> 3
    [] id = "D" -> 4
    [] id = "E" -> 5
    [] id = "constructor" -> 6
    [] OTHER -> 7

\* shift collections, one per multiset of workplaceIds (the reduce updates
\* one key per record, so the order of the records does not matter)
ShiftCollections(ids, n) ==
  {[j \in DOMAIN s |-> Shift(s[j])] :
     s \in {q \in SeqsUpTo(ids, n) :
              \A i, j \in DOMAIN q : i < j => IdRank(q[i]) <= IdRank(q[j])}}

\* ------------------------------------------------------------------ state
VARIABLES
  pc,           \* per invocation: "idle", "awaiting", "returned", "threw"
  fetch,        \* per invocation and url: state of the fetchData promise
  data,         \* per invocation and url: the value fetchData resolved with
  allPromise,   \* per invocation: state of the Promise.all promise
  aggregated,   \* per invocation: line 41 was reached
  shiftCounts,  \* per invocation: the local shiftCounts (line 41)
  joined,       \* per invocation: the mapped array of line 86, before sort
  result,       \* per invocation: the array the call resolved with
  logged        \* per invocation: number of console.error calls

vars == <<pc, fetch, data, allPromise, aggregated, shiftCounts, joined, result, logged>>

\* ------------------------------------------------------------ countShifts
\* The frequency map of some invocation that has already aggregated, if any.
ReduceInitCarried ==
  IF \E j \in Invocations : DOMAIN shiftCounts[j] # {}
  THEN shiftCounts[CHOOSE j \in Invocations : DOMAIN shiftCounts[j] # {}]
  ELSE EmptyObject

\* the initial accumulator of the reduce: a fresh {}
ReduceInit == EmptyObject

\* acc[workplaceId] = (acc[workplaceId] || 0) + 1
Reducer(acc, shift) ==
  SetProp(acc, shift.workplaceId, PlusOne(OrZero(GetProp(acc, shift.workplaceId))))

RECURSIVE Reduce(_, _)
Reduce(shifts, acc) ==
  IF shifts = <<>> THEN acc ELSE Reduce(Tail(shifts), Reducer(acc, Head(shifts)))

countShifts(shifts) == Reduce(shifts, ReduceInit)

\* -------------------------------------------------- getTopThreeWorkplaces
\* ({ id, name }) => ({ name, shifts: shiftCounts[id] || 0 })
MapEntry(w, counts) == [name |-> w.name, shifts |-> OrZero(GetProp(counts, w.id))]

MapWorkplaces(workplaces, counts) ==
  [j \in DOMAIN workplaces |-> MapEntry(workplaces[j], counts)]

\* (a, b) => b.shifts - a.shifts : a number, or NaN when an operand is not
\* a number (ToNumber of a function or of "function ...1" is NaN)
compareFn(a, b) ==
  IF a.shifts.t = "num" /\ b.shifts.t = "num"
  THEN [nan |-> FALSE, v |-> b.shifts.v - a.shifts.v]
  ELSE [nan |-> TRUE, v |-> 0]

\* the comparison Array.prototype.sort makes: NaN counts as +0
SortCompare(a, b) == LET c == compareFn(a, b) IN IF c.nan THEN 0 ELSE c.v

\* compareFn is a consistent comparison function for the elements of arr
ConsistentComparator(arr) ==
  LET S == {arr[j] : j \in DOMAIN arr} IN
    /\ \A a \in S : SortCompare(a, a) = 0
    /\ \A a, b \in S : (SortCompare(a, b) < 0) <=> (SortCompare(b, a) > 0)
    /\ \A a, b, c \in S :
         /\ (SortCompare(a, b) = 0 /\ SortCompare(b, c) = 0) => SortCompare(a, c) = 0
         /\ (SortCompare(a, b) < 0 /\ SortCompare(b, c) < 0) => SortCompare(a, c) < 0
         /\ (SortCompare(a, b) > 0 /\ SortCompare(b, c) > 0) => SortCompare(a, c) > 0

RECURSIVE InsertSorted(_, _)
InsertSorted(s, x) ==
  IF s = <<>> THEN <<x>>
  ELSE IF SortCompare(x, s[Len(s)]) < 0
       THEN Append(InsertSorted(SubSeq(s, 1, Len(s) - 1), x), s[Len(s)])
       ELSE Append(s, x)

RECURSIVE StableSort(_)
StableSort(arr) ==
  IF arr = <<>> THEN <<>>
  ELSE InsertSorted(StableSort(SubSeq(arr, 1, Len(arr) - 1)), arr[Len(arr)])

RemoveAt(arr, j) == SubSeq(arr, 1, j - 1) \o SubSeq(arr, j + 1, Len(arr))

RECURSIVE Arrangements(_)
Arrangements(arr) ==
  IF arr = <<>> THEN {<<>>}
  ELSE UNION {{<<arr[j]>> \o r : r \in Arrangements(RemoveAt(arr, j))} : j \in DOMAIN arr}

\* Array.prototype.sort(compareFn): the stable sort when compareFn is
\* consistent for the elements; otherwise the order is implementation-defined
\* and every arrangement of the elements is a possible outcome.
ArraySort(arr) ==
  IF ConsistentComparator(arr) THEN {StableSort(arr)} ELSE Arrangements(arr)

SliceOffByOne(arr) == SubSeq(arr, 1, IF Len(arr) < 2 THEN Len(arr) ELSE 2)

\* .slice(0, 3)
Slice(arr) == SubSeq(arr, 1, IF Len(arr) < 3 THEN Len(arr) ELSE 3)

RECURSIVE KeysInOrder(_)
KeysInOrder(K) ==
  IF K = {} THEN <<>>
  ELSE LET k == CHOOSE x \in K : \A y \in K : IdRank(x) <= IdRank(y)
       IN <<k>> \o KeysInOrder(K \ {k})

\* ranks the entries of the frequency map and looks the name up per entry
getTopThreeFromCounts(workplaces, counts) ==
  LET keys == KeysInOrder(DOMAIN counts)
      nameFor(k) ==
        IF \E j \in DOMAIN workplaces : workplaces[j].id = k
        THEN workplaces[CHOOSE j \in DOMAIN workplaces : workplaces[j].id = k].name
        ELSE "undefined"
      entries == [j \in DOMAIN keys |-> [name |-> nameFor(keys[j]), shifts |-> counts[keys[j]]]]
  IN {Slice(sorted) : sorted \in ArraySort(entries)}

\* the set of arrays getTopThreeWorkplaces can return
getTopThreeWorkplaces(workplaces, counts) ==
  {Slice(sorted) : sorted \in ArraySort(MapWorkplaces(workplaces, counts))}

\* ------------------------------------------------------- getTopWorkplaces
\* What the body of the try block after the await (lines 41-42) can do with
\* the two resolved values: return an array, or throw (reduce or map called
\* on undefined).  counts and mapped are the locals it has built by then.
TryBody(workplaces, shifts) ==
  IF ~shifts.isArray
  THEN {[kind |-> "throw", value |-> <<>>, counts |-> EmptyObject, mapped |-> <<>>]}
  ELSE LET counts == countShifts(shifts.items) IN
    IF ~workplaces.isArray
    THEN {[kind |-> "throw", value |-> <<>>, counts |-> counts, mapped |-> <<>>]}
    ELSE {[kind |-> "return", value |-> r, counts |-> counts,
           mapped |-> MapWorkplaces(workplaces.items, counts)] :
            r \in getTopThreeWorkplaces(workplaces.items, counts)}

CatchCompletionRethrow == [pc |-> "threw", value |-> <<>>]

\* catch (error) { console.error(...); return []; }
CatchCompletion == [pc |-> "returned", value |-> <<>>]

PromiseAllSettledLike(f) ==
  IF \E u \in Urls : f[u] = "pending" THEN "pending"
  ELSE IF \E u \in Urls : f[u] = "rejected" THEN "rejected"
  ELSE "fulfilled"

PromiseAnyFulfilled(f) ==
  IF \E u \in Urls : f[u] = "rejected" THEN "rejected"
  ELSE IF \E u \in Urls : f[u] = "fulfilled" THEN "fulfilled"
  ELSE "pending"

\* Promise.all over the two fetchData promises: rejected as soon as one is
\* rejected, fulfilled once both are fulfilled.
PromiseAll(f) ==
  IF \E u \in Urls : f[u] = "rejected" THEN "rejected"
  ELSE IF \A u \in Urls : f[u] = "fulfilled" THEN "fulfilled"
  ELSE "pending"

Init ==
  /\ pc = [i \in Invocations |-> "idle"]
  /\ fetch = [i \in Invocations |-> [u \in Urls |-> "unissued"]]
  /\ data = [i \in Invocations |-> [u \in Urls |-> Undefined]]
  /\ allPromise = [i \in Invocations |-> "pending"]
  /\ aggregated = [i \in Invocations |-> FALSE]
  /\ shiftCounts = [i \in Invocations |-> EmptyObject]
  /\ joined = [i \in Invocations |-> <<>>]
  /\ result = [i \in Invocations |-> <<>>]
  /\ logged = [i \in Invocations |-> 0]

\* await the first fetchData before calling the second
InvokeSerialized(i) ==
  /\ pc[i] = "idle"
  /\ pc' = [pc EXCEPT ![i] = "awaiting"]
  /\ fetch' = [fetch EXCEPT ![i][WORKPLACES_URL] = "pending"]
  /\ UNCHANGED <<data, allPromise, aggregated, shiftCounts, joined, result, logged>>

\* The synchronous part of a call: both fetchData calls subscribe to their
\* request, Promise.all is built, the function suspends at the await.
Invoke(i) ==
  /\ pc[i] = "idle"
  /\ pc' = [pc EXCEPT ![i] = "awaiting"]
  /\ fetch' = [fetch EXCEPT ![i] = [u \in Urls |-> "pending"]]
  /\ UNCHANGED <<data, allPromise, aggregated, shiftCounts, joined, result, logged>>

\* The reactions that run after a fetchData promise of invocation i settled,
\* given the new promise states f and resolved values d.
Settle(i, f, d) ==
  LET st == PromiseAll(f) IN
    IF allPromise[i] # "pending" \/ st = "pending"
    THEN UNCHANGED <<pc, allPromise, aggregated, shiftCounts, joined, result, logged>>
    ELSE
      /\ allPromise' = [allPromise EXCEPT ![i] = st]
      /\ IF st = "rejected"
         THEN /\ pc' = [pc EXCEPT ![i] = CatchCompletion.pc]
              /\ result' = [result EXCEPT ![i] = CatchCompletion.value]
              /\ logged' = [logged EXCEPT ![i] = @ + 1]
              /\ UNCHANGED <<aggregated, shiftCounts, joined>>
         ELSE \E c \in TryBody(d[WORKPLACES_URL], d[SHIFTS_URL]) :
              /\ aggregated' = [aggregated EXCEPT ![i] = TRUE]
              /\ shiftCounts' = [shiftCounts EXCEPT ![i] = c.counts]
              /\ joined' = [joined EXCEPT ![i] = c.mapped]
              /\ IF c.kind = "return"
                 THEN /\ pc' = [pc EXCEPT ![i] = "returned"]
                      /\ result' = [result EXCEPT ![i] = c.value]
                      /\ UNCHANGED logged
                 ELSE /\ pc' = [pc EXCEPT ![i] = CatchCompletion.pc]
                      /\ result' = [result EXCEPT ![i] = CatchCompletion.value]
                      /\ logged' = [logged EXCEPT ![i] = @ + 1]

\* A response arrives and fetchData returns response.data.data
RespondOk(i, u, payload) ==
  /\ fetch[i][u] = "pending"
  /\ fetch' = [fetch EXCEPT ![i][u] = "fulfilled"]
  /\ data' = [data EXCEPT ![i][u] = payload]
  /\ Settle(i, [fetch[i] EXCEPT ![u] = "fulfilled"], [data[i] EXCEPT ![u] = payload])

\* The request fails (lastValueFrom rejects) or response.data is undefined
\* (line 57 throws): the fetchData promise is rejected.
RespondError(i, u) ==
  /\ fetch[i][u] = "pending"
  /\ fetch' = [fetch EXCEPT ![i][u] = "rejected"]
  /\ UNCHANGED data
  /\ Settle(i, [fetch[i] EXCEPT ![u] = "rejected"], data[i])

\* ----------------------------------------------------- what the server sends
\* Identifiers are opaque strings.  "X" is the id of no workplace; the id
\* "constructor" is also the name of a property of Object.prototype.
ConcWorkplaces == WorkplaceCollections({"A"}, MaxWorkplaces)
ConcShifts == ShiftCollections({"A"}, MaxShifts)
AggWorkplaces ==
  WorkplaceCollections({"A", "B", "C", "D", "E"}, MaxWorkplaces)
    \cup WorkplaceCollections({"A", "B", "C", "constructor"}, MaxWorkplaces)
AggShifts == ShiftCollections({"A", "B", "constructor", "X"}, MaxShifts)

Payloads(u, W, S) ==
  IF u = WORKPLACES_URL
  THEN {Array(c) : c \in W} \cup {Undefined}
  ELSE {Array(c) : c \in S} \cup {Undefined}

\* Concurrent invocations against a server whose collections may change
\* between requests.
Next ==
  \E i \in Invocations :
    \/ Invoke(i)
    \/ \E u \in Urls : RespondError(i, u)
    \/ \E u \in Urls : \E p \in Payloads(u, ConcWorkplaces, ConcShifts) :
         RespondOk(i, u, p)

Spec == Init /\ [][Next]_vars

\* One invocation, over the wide input universe.
NextAgg ==
  \/ Invoke(1)
  \/ \E u \in Urls : RespondError(1, u)
  \/ \E u \in Urls : \E p \in Payloads(u, AggWorkplaces, AggShifts) :
       RespondOk(1, u, p)

SpecAgg == Init /\ [][NextAgg]_vars

\* ================================================================ claims
WorkplacesOf(i) == data[i][WORKPLACES_URL].items
ShiftsOf(i) == data[i][SHIFTS_URL].items

\* both retrievals of invocation i succeeded, each with a collection
Succeeded(i) ==
  \A u \in Urls : fetch[i][u] = "fulfilled" /\ data[i][u].isArray

Failed(i) == \E u \in Urls : fetch[i][u] = "rejected"

\* number of shift records whose workplaceId is id
CountOf(shifts, id) == Cardinality({j \in DOMAIN shifts : shifts[j].workplaceId = id})

Min(a, b) == IF a < b THEN a ELSE b

\* C1: whenever one of the two retrievals of an invocation has failed, the
\* invocation has returned, normally, the empty sequence: no error reaches
\* the caller and no partial result is returned, whatever the other
\* retrieval did or does.
C1_FailureContained ==
  \A i \in Invocations :
    Failed(i) => pc[i] = "returned" /\ result[i] = <<>>

C1_Witness ==
  \E i \in Invocations :
    /\ fetch[i][SHIFTS_URL] = "rejected"
    /\ fetch[i][WORKPLACES_URL] = "fulfilled"
    /\ WorkplacesOf(i) # <<>>
    /\ pc[i] = "returned"

\* C2: when both retrievals succeed, the joined sequence holds every
\* workplace exactly once, with shifts the number of shift records whose
\* workplaceId equals the workplace's id, and every returned entry reports
\* that count.
C2_CountCorrect ==
  \A i \in Invocations :
    Succeeded(i) =>
      LET W == WorkplacesOf(i)
          S == ShiftsOf(i)
          expected(j) == [name |-> W[j].name, shifts |-> Num(CountOf(S, W[j].id))]
      IN /\ Len(joined[i]) = Len(W)
         /\ \A j \in DOMAIN W : joined[i][j] = expected(j)
         /\ \A k \in DOMAIN result[i] : \E j \in DOMAIN W : result[i][k] = expected(j)

\* C3: when both retrievals succeed and there are W workplaces, the returned
\* sequence has exactly min(W, 3) entries.
C3_Cardinality ==
  \A i \in Invocations :
    Succeeded(i) =>
      /\ pc[i] = "returned"
      /\ Len(result[i]) = Min(Len(WorkplacesOf(i)), 3)

C3_Witness ==
  \E i \in Invocations :
    /\ Succeeded(i)
    /\ Len(WorkplacesOf(i)) = 4
    /\ Len(result[i]) = 3
    /\ ShiftsOf(i) # <<>>
    /\ \A j \in DOMAIN ShiftsOf(i) : ShiftsOf(i)[j].workplaceId = "X"

\* a.shifts >= b.shifts
Geq(a, b) == a.t = "num" /\ b.t = "num" /\ a.v >= b.v

InResult(i, w) == \E k \in DOMAIN result[i] : result[i][k].name = w.name

PositionOf(i, w) == CHOOSE k \in DOMAIN result[i] : result[i][k].name = w.name

\* C4: when both retrievals succeed, the result is sorted by count
\* descending (a.shifts >= b.shifts for every adjacent pair) and no workplace
\* left out by the truncation has more shifts than one that was kept.
C4_SortedDescending ==
  \A i \in Invocations :
    Succeeded(i) =>
      LET W == WorkplacesOf(i)
          S == ShiftsOf(i)
      IN /\ \A k \in 1..(Len(result[i]) - 1) :
              Geq(result[i][k].shifts, result[i][k + 1].shifts)
         /\ \A j, k \in DOMAIN W :
              (~InResult(i, W[j]) /\ InResult(i, W[k]))
                => CountOf(S, W[j].id) <= CountOf(S, W[k].id)

\* C5: when both retrievals succeed, of two workplaces with equal shift
\* counts the one earlier in the workplace collection comes earlier in the
\* ranking: if the later one is in the result, so is the earlier one, ahead
\* of it.
C5_StableTies ==
  \A i \in Invocations :
    Succeeded(i) =>
      LET W == WorkplacesOf(i)
          S == ShiftsOf(i)
      IN \A j, k \in DOMAIN W :
           (j < k /\ CountOf(S, W[j].id) = CountOf(S, W[k].id) /\ InResult(i, W[k]))
             => (InResult(i, W[j]) /\ PositionOf(i, W[j]) < PositionOf(i, W[k]))

\* the shift records that reference some workplace of the collection
WithoutOrphans(shifts, workplaces) ==
  SelectSeq(shifts, LAMBDA s : \E j \in DOMAIN workplaces : workplaces[j].id = s.workplaceId)

\* C6: orphan shifts do not affect the output: the call returns what it can
\* return for the same workplaces and the shift collection without its
\* orphans, every returned name is the name of a workplace, and nothing is
\* logged.
C6_OrphansIgnored ==
  \A i \in Invocations :
    Succeeded(i) =>
      LET W == WorkplacesOf(i)
          S == ShiftsOf(i)
          kept == WithoutOrphans(S, W)
      IN /\ pc[i] = "returned"
         /\ logged[i] = 0
         /\ result[i] \in getTopThreeWorkplaces(W, countShifts(kept))
         /\ \A k \in DOMAIN result[i] : \E j \in DOMAIN W : result[i][k].name = W[j].name

C6_Witness ==
  \E i \in Invocations :
    /\ Succeeded(i)
    /\ \E j \in DOMAIN ShiftsOf(i) : ShiftsOf(i)[j].workplaceId = "X"
    /\ \E j \in DOMAIN ShiftsOf(i) : ShiftsOf(i)[j].workplaceId = "B"
    /\ Len(WorkplacesOf(i)) = 4
    /\ Len(result[i]) = 3
    /\ result[i][1].name = "Beta"

\* C7: every invocation's frequency map, joined sequence and result are
\* computed from the two collections returned to its own requests, starting
\* from an empty map, under every interleaving with other invocations.
C7_NoInterference ==
  \A i \in Invocations :
    /\ ~aggregated[i] => shiftCounts[i] = EmptyObject /\ joined[i] = <<>> /\ result[i] = <<>>
    /\ (aggregated[i] /\ data[i][SHIFTS_URL].isArray) =>
         shiftCounts[i] = Reduce(ShiftsOf(i), EmptyObject)
    /\ Succeeded(i) =>
         /\ aggregated[i]
         /\ joined[i] = MapWorkplaces(WorkplacesOf(i), Reduce(ShiftsOf(i), EmptyObject))
         /\ \A k \in DOMAIN result[i] : \E j \in DOMAIN joined[i] : result[i][k] = joined[i][j]
         /\ Len(result[i]) = Min(Len(joined[i]), 3)

C7_Witness ==
  \E i, j \in Invocations :
    /\ i # j
    /\ Succeeded(i) /\ Succeeded(j)
    /\ result[i] # <<>> /\ result[j] # <<>>
    /\ result[i] # result[j]

\* C8: aggregation has run only in invocations whose two retrievals have
\* both completed successfully; it never starts while one is pending.
C8_JoinBarrier ==
  \A i \in Invocations :
    aggregated[i] => \A u \in Urls : fetch[i][u] = "fulfilled"

C8_Witness ==
  \E i \in Invocations :
    /\ aggregated[i]
    /\ pc[i] = "returned"
    /\ result[i] # <<>>
    /\ \E j \in Invocations : j # i /\ pc[j] = "awaiting"

\* C9: once a retrieval has failed the invocation has returned the empty
\* sequence with one diagnostic, without waiting for the other retrieval;
\* and nothing that happens after an invocation returned changes its result,
\* returns again, logs again or raises an error.
C9_FailFast ==
  /\ [](\A i \in Invocations :
          Failed(i) => pc[i] = "returned" /\ result[i] = <<>> /\ logged[i] = 1)
  /\ [][\A i \in Invocations :
          pc[i] = "returned" =>
            pc'[i] = "returned" /\ result'[i] = result[i] /\ logged'[i] = logged[i]]_vars

C9_Witness ==
  \E i \in Invocations :
    /\ pc[i] = "returned"
    /\ fetch[i][WORKPLACES_URL] = "rejected"
    /\ fetch[i][SHIFTS_URL] = "pending"

\* C10: both requests of an invocation are issued before it waits on either:
\* no request is outstanding, answered or failed while the other one of the
\* same invocation has not been issued.
C10_NotSerialized ==
  \A i \in Invocations :
    (pc[i] # "idle" \/ \E u \in Urls : fetch[i][u] # "unissued")
      => \A u \in Urls : fetch[i][u] # "unissued"

C10_Witness ==
  \E i \in Invocations :
    /\ fetch[i][SHIFTS_URL] = "fulfilled"
    /\ fetch[i][WORKPLACES_URL] = "pending"
    /\ pc[i] = "awaiting"

====
